---- MODULE Spec2Model ----
(***************************************************************************)
(* A model of InstantUnit (include/InstantUnit/InstantUnit.h): the test    *)
(* session / test suite / test case contexts, the registry of static test  *)
(* instances, RunTests(), TestSuiteRunner::RunTestSuite and                *)
(* FullContextForTestCase::ExecuteTestCase.                                *)
(*                                                                         *)
(* Three programs are modelled over the same state:                        *)
(*   SpecCase   one call of ExecuteTestCase on an arbitrary test body,     *)
(*   Spec       static registration of TEST instances, then RunTests(),    *)
(*   SpecSuite  a client that owns one session context and runs suite      *)
(*              contexts on it, through ProcessTestCases with a finite     *)
(*              case iterator or through TestSuiteRunner::RunTestSuite.    *)
(***************************************************************************)
EXTENDS Integers, Sequences, FiniteSets, TLC

\* Longest test body (number of check statements) ExecuteTestCase is run on.
MaxChecks == 3

\* Number of static TEST instances (SimpleStandaloneTestRunner objects).
MaxTests == 2

\* Number of static TEST_SUITE instances (TestSuiteRunner objects).
MaxNamedSuites == 1

\* Number of suite contexts the client creates on one session.
MaxSuites == 2

\* Longest finite case iterator handed to ProcessTestCases, and the largest
\* number of TEST_CASE items declared in a TEST_SUITE body.
MaxCases == 2

\* RunTestSuite's case iterator never ends: the model stops following its
\* loop after this many iterations.
MaxStubCases == 3

-----------------------------------------------------------------------------
(* Exceptions and test bodies *)

NoException == "none"

\* What can leave a test body or a test case executor by a throw: the two
\* signal classes of the framework, a std::exception, anything else.
Exceptions ==
    {"AssertCheckFailed", "SanityCheckFailed", "std::exception", "unknown"}

\* The check macros a body may hold.
CheckKinds == {"EXPECT", "ASSERT", "SANITY_CHECK", "CRITICAL_CHECK"}

\* Statements of a body that are no check: they throw.
Faults == {"throw std::exception", "throw unknown"}

\* One statement of a test body: a check with the value of its condition, or
\* a statement that throws.
Steps ==
    [sev : CheckKinds, ok : BOOLEAN] \cup {[sev |-> f, ok |-> FALSE] : f \in Faults}

Chk(sev, ok) == [sev |-> sev, ok |-> ok]

\* Every body of at most MaxChecks statements.
Bodies == UNION {[1..n -> Steps] : n \in 0..MaxChecks}

\* The bodies of the tests and test cases the two flows run: the empty body,
\* every body of one statement, and the bodies with several checks that
\* decide the truncation rules.
FlowBodies ==
    {<<>>} \cup {<<s>> : s \in Steps}
    \cup {<<Chk("EXPECT", FALSE), Chk("EXPECT", TRUE), Chk("EXPECT", TRUE)>>,
          <<Chk("ASSERT", FALSE), Chk("EXPECT", TRUE)>>,
          <<Chk("EXPECT", FALSE), Chk("ASSERT", FALSE)>>,
          <<Chk("EXPECT", TRUE), Chk("EXPECT", TRUE)>>}

-----------------------------------------------------------------------------
(* The check macros.  ASSERT, EXPECT, SANITY_CHECK and CRITICAL_CHECK are    *)
(* declared and documented in the header but expand to nothing usable, so   *)
(* what one check does to the running test case is taken from their         *)
(* documentation and the specification's severity table.                    *)

\* The exception a check raises: a failed ASSERT ends the test case, a
\* failed sanity or critical check signals SanityCheckFailed.
CheckThrows(step) ==
    CASE step.sev = "ASSERT" /\ ~step.ok -> "AssertCheckFailed"
      [] step.sev \in {"SANITY_CHECK", "CRITICAL_CHECK"} /\ ~step.ok -> "SanityCheckFailed"
      [] OTHER -> NoException

\* A failed EXPECT or ASSERT marks the surrounding test case as failed.
CheckClearsFlag(step) == step.sev \in {"EXPECT", "ASSERT"} /\ ~step.ok

\* ASSERT and EXPECT produce test output; the sanity checks produce none.
CheckIsReported(step) == step.sev \in {"EXPECT", "ASSERT"}

\* A failed CRITICAL_CHECK means the whole session is broken.
CheckIsFatal(step) == step.sev = "CRITICAL_CHECK" /\ ~step.ok

\* What a statement of the body throws.
StepThrows(step) ==
    CASE step.sev = "throw std::exception" -> "std::exception"
      [] step.sev = "throw unknown" -> "unknown"
      [] OTHER -> CheckThrows(step)

-----------------------------------------------------------------------------
VARIABLES
    pc,         \* where the running program is
    caller,     \* who called ExecuteTestCase: "harness", "RunTests", "executor"
    tcBody,     \* ExecuteTestCase: the body being executed
    tcPos,      \* ExecuteTestCase: index of the body's next statement
    flag,       \* ExecuteTestCase: allAssertsAndExpectsPassedFlag
    thrown,     \* ExecuteTestCase: the exception that left the body
    tcResult,   \* ExecuteTestCase: the value returned
    reported,   \* history: positions of the body's checks that were reported
    fatalSeen,  \* history: a CRITICAL_CHECK has failed
    head,       \* CollectInstancesOf<SimpleStandaloneTestRunner>::head (0: nullptr)
    pointerToTailPtr, \* ...::pointerToTailPtr (0: &head, k: &(instance k).next)
    next,       \* the next pointer of each instance (0: nullptr)
    suiteHead,  \* CollectInstancesOf<TestSuiteRunner>::head (0: nullptr)
    suitePointerToTailPtr, \* ...::pointerToTailPtr (0: &head, k: &(unit k).next)
    suiteNext,  \* the next pointer of each unit, as CollectInstancesOf<TestSuiteRunner>
    regOrder,   \* history: the units in the order their constructors ran
    reporterCalls, \* history: the Reporter::OnItem calls made so far
    exitCode,   \* RunTets: the value returned ("none" until it returns)
    ptr,        \* ForEachInstance: the loop pointer
    allPassed,  \* RunTests: allPassed
    runResult,  \* RunTests: the value returned ("none" until it returns)
    ranTests,   \* history: the instances RunTests has called RunTest on, in order
    session,    \* the FullContextForTestSession
    suite,      \* the FullContextForTestSuite that exists now
    closed,     \* history: the final counters of the suite contexts destroyed so far
    allNestedTCSucceeded, \* ProcessTestCases: allNestedTCSucceeded
    executor,   \* ProcessTestCases: the executor the iterator returned
    execThrown, \* ProcessTestCases: the exception the executor threw
    execReturned \* ProcessTestCases: the value the executor returned

tcVars == <<caller, tcBody, tcPos, flag, thrown, tcResult, reported>>

regVars == <<head, pointerToTailPtr, next>>

suiteRegVars == <<suiteHead, suitePointerToTailPtr, suiteNext>>

unitVars == <<regVars, suiteRegVars, regOrder>>

outVars == <<reporterCalls, exitCode>>

runVars == <<ptr, allPassed, runResult, ranTests>>

ctxVars == <<session, suite, closed>>

ptcVars == <<allNestedTCSucceeded, executor, execThrown, execReturned>>

vars == <<pc, tcVars, fatalSeen, unitVars, outVars, runVars, ctxVars, ptcVars>>

-----------------------------------------------------------------------------
(* FullContextForTestCase::ExecuteTestCase *)

ExecuteTestCaseResult_IgnoresFlag(f, exc) == exc = NoException

ExecuteTestCaseResult_PassesOnAssert(f, exc) ==
    IF exc = NoException THEN f ELSE exc = "AssertCheckFailed"

\* The value ExecuteTestCase returns: the flag when the body returned, false
\* from behind each of the four catch clauses.
ExecuteTestCaseResult(f, exc) == IF exc = NoException THEN f ELSE FALSE

ExecuteTestCaseCatches_NoCatchAll(exc) ==
    exc \in {"AssertCheckFailed", "SanityCheckFailed", "std::exception"}

\* The four catch clauses around the call of the body: AssertCheckFailed,
\* SanityCheckFailed, std::exception and catch(...), which takes the rest.
ExecuteTestCaseCatches(exc) ==
    \/ exc \in {"AssertCheckFailed", "SanityCheckFailed", "std::exception"}
    \/ exc # NoException

\* Entry: the flag starts true and the body is called.
EnterTestCase(body, from) ==
    /\ tcBody' = body
    /\ tcPos' = 1
    /\ flag' = TRUE
    /\ thrown' = NoException
    /\ tcResult' = FALSE
    /\ reported' = <<>>
    /\ caller' = from
    /\ pc' = "tc_body"

TcBody_Step_ReportsEveryCheck ==
    /\ pc = "tc_body"
    /\ thrown = NoException
    /\ tcPos <= Len(tcBody)
    /\ LET step == tcBody[tcPos] IN
        /\ flag' = (flag /\ ~CheckClearsFlag(step))
        /\ thrown' = StepThrows(step)
        /\ reported' = IF step.sev \in CheckKinds THEN Append(reported, tcPos) ELSE reported
        /\ fatalSeen' = (fatalSeen \/ CheckIsFatal(step))
    /\ tcPos' = tcPos + 1
    /\ UNCHANGED <<pc, caller, tcBody, tcResult, unitVars, outVars, runVars, ctxVars, ptcVars>>

\* The body executes its next statement.
TcBody_Step ==
    /\ pc = "tc_body"
    /\ thrown = NoException
    /\ tcPos <= Len(tcBody)
    /\ LET step == tcBody[tcPos] IN
        /\ flag' = (flag /\ ~CheckClearsFlag(step))
        /\ thrown' = StepThrows(step)
        /\ reported' = IF CheckIsReported(step) THEN Append(reported, tcPos) ELSE reported
        /\ fatalSeen' = (fatalSeen \/ CheckIsFatal(step))
    /\ tcPos' = tcPos + 1
    /\ UNCHANGED <<pc, caller, tcBody, tcResult, unitVars, outVars, runVars, ctxVars, ptcVars>>

\* The body has returned or thrown: ExecuteTestCase returns to its caller,
\* from the try block or from behind the catch clause that took the
\* exception.  An exception no clause takes would leave ExecuteTestCase.
ExecuteTestCase_Return ==
    /\ pc = "tc_body"
    /\ (thrown # NoException \/ tcPos > Len(tcBody))
    /\ tcResult' = ExecuteTestCaseResult(flag, thrown)
    /\ pc' = IF thrown = NoException \/ ExecuteTestCaseCatches(thrown)
             THEN "tc_ret" ELSE "tc_escaped"
    /\ UNCHANGED <<caller, tcBody, tcPos, flag, thrown, reported, fatalSeen,
                   unitVars, outVars, runVars, ctxVars, ptcVars>>

-----------------------------------------------------------------------------
(* The contexts *)

\* A session context that does not exist yet.
NoSession ==
    [started |-> FALSE, completed |-> FALSE, ready |-> FALSE,
     testCasesTotalExecuted |-> 0, testCasesTotalPassed |-> 0,
     testCasesTotalFailed |-> 0]

\* FullContextForTestSession(): the default constructor calls OnActivityStart,
\* which sets started.
NewSessionDefault == [NoSession EXCEPT !.started = TRUE]

\* FullContextForTestSession(name): only the name is initialised.
NewSessionNamed == NoSession

\* FullContextForTestSuite(...): counters 0, ready false.  kind tells who
\* runs the suite ("DEFAULT": RunTests, "client": ProcessTestCases with a
\* finite iterator, "runner": RunTestSuite); declared is the number of test
\* cases of the suite, left the number the iterator still holds.  okVerdicts,
\* badVerdicts, bodyRuns, doNextTestCalls and sanityAt are history: the
\* executors that returned true, those that did not, the test case bodies
\* run, the calls of Runner_DoNextTest, and the position of the first
\* executor that threw SanityCheckFailed (0: none).
NewSuite(kind, n) ==
    [kind |-> kind, declared |-> n, left |-> n, ready |-> FALSE,
     testCasesExecuted |-> 0, testCasesPassed |-> 0, testCasesFailed |-> 0,
     okVerdicts |-> 0, badVerdicts |-> 0, bodyRuns |-> 0,
     doNextTestCalls |-> 0, sanityAt |-> 0]

NoSuite == NewSuite("none", 0)

NoneClosed == [suites |-> 0, executed |-> 0, passed |-> 0, failed |-> 0, declared |-> 0]

\* The suite context goes out of scope: its counters join the history.
Close(c, st) ==
    IF st.kind = "none" THEN c
    ELSE [suites |-> c.suites + 1,
          executed |-> c.executed + st.testCasesExecuted,
          passed |-> c.passed + st.testCasesPassed,
          failed |-> c.failed + st.testCasesFailed,
          declared |-> c.declared + st.declared]

\* FullContextForTestSession::OnTestCaseStart / OnTestCasePassed / OnTestCaseFailed
SessionOnTestCaseStart(s) == [s EXCEPT !.testCasesTotalExecuted = @ + 1]

SessionOnTestCasePassed(s) == [s EXCEPT !.testCasesTotalPassed = @ + 1]

SessionOnTestCaseFailed_Forgets(s) == s

SessionOnTestCaseFailed(s) == [s EXCEPT !.testCasesTotalFailed = @ + 1]

\* FullContextForTestSuite::onTestCaseStart / onTestCasePassed /
\* onTestCaseFailed: the parent session's handler, then the own counter.
\* Each gives the new session and the new suite context.
onTestCaseStart_SkipsOwnCounter(s, st) ==
    [session |-> SessionOnTestCaseStart(s), suite |-> st]

onTestCaseStart(s, st) ==
    [session |-> SessionOnTestCaseStart(s),
     suite |-> [st EXCEPT !.testCasesExecuted = @ + 1]]

onTestCasePassed_SkipsParent(s, st) ==
    [session |-> s, suite |-> [st EXCEPT !.testCasesPassed = @ + 1]]

onTestCasePassed(s, st) ==
    [session |-> SessionOnTestCasePassed(s),
     suite |-> [st EXCEPT !.testCasesPassed = @ + 1]]

onTestCaseFailed_PerFailedCheck(s, st) ==
    LET failedChecks ==
            IF executor = "case"
            THEN Cardinality({i \in 1..(tcPos - 1) : ~tcBody[i].ok})
            ELSE 1
        k == IF failedChecks < 1 THEN 1 ELSE failedChecks
    IN [session |-> [s EXCEPT !.testCasesTotalFailed = @ + k],
        suite |-> [st EXCEPT !.testCasesFailed = @ + k]]

onTestCaseFailed_CountsPassed(s, st) ==
    [session |-> SessionOnTestCaseFailed(s),
     suite |-> [st EXCEPT !.testCasesPassed = @ + 1]]

onTestCaseFailed(s, st) ==
    [session |-> SessionOnTestCaseFailed(s),
     suite |-> [st EXCEPT !.testCasesFailed = @ + 1]]

onTestSuiteComplete_Forgets(st) == st

\* FullContextForTestSuite::onTestSuiteComplete
onTestSuiteComplete(st) == [st EXCEPT !.ready = TRUE]

\* FullContextForTestSession::OnTestSessionComplete: OnActivityComplete takes
\* the end times (and leaves completed alone), then ready is set.
OnTestSessionComplete(s) == [s EXCEPT !.ready = TRUE]

\* The fields of a FullContextForTestCase behind its name and place: ready
\* and isPassed.  Both are initialised false and no code assigns them.
FullContextForTestCase == [ready |-> FALSE, isPassed |-> FALSE]

\* CheckIfReady(calledFrom) of the three contexts: `if( !ready ){ }` around
\* a TODO comment.  It signals nothing, whatever ready is.
CheckIfReady(ctx) == NoException

\* The "after" queries of the session and suite contexts: CheckIfReady, then
\* the counter is returned.  Each gives what was signalled and the answer.
SessionTestCasesExecuted(s) ==
    [signal |-> CheckIfReady(s), answer |-> s.testCasesTotalExecuted]

SessionTestCasesPassed(s) ==
    [signal |-> CheckIfReady(s), answer |-> s.testCasesTotalPassed]

SessionTestCasesFailed(s) ==
    [signal |-> CheckIfReady(s), answer |-> s.testCasesTotalFailed]

SuiteTestCasesExecuted(st) ==
    [signal |-> CheckIfReady(st), answer |-> st.testCasesExecuted]

SuiteTestCasesPassed(st) ==
    [signal |-> CheckIfReady(st), answer |-> st.testCasesPassed]

SuiteTestCasesFailed(st) ==
    [signal |-> CheckIfReady(st), answer |-> st.testCasesFailed]

\* IsPassed(): `return false; //TODO:` for the session and the suite,
\* CheckIfReady and the field isPassed for the test case.
SessionIsPassed(s) == [signal |-> NoException, answer |-> FALSE]

SuiteIsPassed(st) == [signal |-> NoException, answer |-> FALSE]

CaseIsPassed(tc) == [signal |-> CheckIfReady(tc), answer |-> tc.isPassed]

\* IsErrorOnStart(): `return true; //TODO:` in all three contexts.
SessionIsErrorOnStart(s) == TRUE

SuiteIsErrorOnStart(st) == TRUE

CaseIsErrorOnStart(tc) == TRUE

\* FullContextForTestSession::TestSuitesFound: `return 0;` behind a TODO.
TestSuitesFound(s) == 0

-----------------------------------------------------------------------------
(* CollectInstancesOf<SimpleStandaloneTestRunner> and                       *)
(* CollectInstancesOf<TestSuiteRunner>: each instantiation of the template  *)
(* has its own static head and pointerToTailPtr.                            *)

\* The static TEST objects.
Instances == 1..MaxTests

\* The static TEST_SUITE objects.
SuiteInstances == (MaxTests + 1)..(MaxTests + MaxNamedSuites)

\* Every object that derives from an instantiation of CollectInstancesOf.
Units == Instances \cup SuiteInstances

RECURSIVE Walk(_, _)
\* The instances ForEachInstance visits from p on, at most fuel of them.
Walk(p, fuel) ==
    IF p = 0 \/ fuel = 0 THEN <<>> ELSE <<p>> \o Walk(next[p], fuel - 1)

\* The instances in the list, in the order ForEachInstance visits them.
Registered == Walk(head, MaxTests)

InList(n) == \E i \in DOMAIN Registered : Registered[i] = n

RECURSIVE WalkSuites(_, _)
\* The units ForEachInstance of the TestSuiteRunner list visits from p on.
WalkSuites(p, fuel) ==
    IF p = 0 \/ fuel = 0 THEN <<>> ELSE <<p>> \o WalkSuites(suiteNext[p], fuel - 1)

\* The units in the TestSuiteRunner list, in the order ForEachInstance
\* visits them.
RegisteredSuites == WalkSuites(suiteHead, MaxTests + MaxNamedSuites)

InSuiteList(n) == \E i \in DOMAIN RegisteredSuites : RegisteredSuites[i] = n

Register_PushFront(n) ==
    /\ pc = "static_init"
    /\ ~InList(n)
    /\ head' = n
    /\ next' = [next EXCEPT ![n] = head]
    /\ pointerToTailPtr' = IF pointerToTailPtr = 0 THEN n ELSE pointerToTailPtr
    /\ regOrder' = Append(regOrder, n)
    /\ UNCHANGED <<pc, tcVars, fatalSeen, suiteRegVars, outVars, runVars, ctxVars, ptcVars>>

Register_SharedStatics(n) ==
    /\ pc = "static_init"
    /\ ~InList(n)
    /\ ~InSuiteList(n)
    /\ IF suitePointerToTailPtr = 0
         THEN /\ suiteHead' = n
              /\ suiteNext' = [suiteNext EXCEPT ![n] = 0]
         ELSE /\ suiteHead' = suiteHead
              /\ suiteNext' = [suiteNext EXCEPT ![n] = 0, ![suitePointerToTailPtr] = n]
    /\ suitePointerToTailPtr' = n
    /\ regOrder' = Append(regOrder, n)
    /\ UNCHANGED <<pc, tcVars, fatalSeen, regVars, outVars, runVars, ctxVars, ptcVars>>

Register_TailNotAdvanced(n) ==
    /\ pc = "static_init"
    /\ ~InList(n)
    /\ \A i \in DOMAIN regOrder : regOrder[i] # n
    /\ IF pointerToTailPtr = 0
         THEN /\ head' = n
              /\ next' = [next EXCEPT ![n] = 0]
         ELSE /\ head' = head
              /\ next' = [next EXCEPT ![n] = 0, ![pointerToTailPtr] = n]
    /\ pointerToTailPtr' = pointerToTailPtr
    /\ regOrder' = Append(regOrder, n)
    /\ UNCHANGED <<pc, tcVars, fatalSeen, suiteRegVars, outVars, runVars, ctxVars, ptcVars>>

\* The constructor of a static instance n: next(nullptr), then
\* *pointerToTailPtr = this and pointerToTailPtr = &this->next.
Register(n) ==
    /\ pc = "static_init"
    /\ ~InList(n)
    /\ IF pointerToTailPtr = 0
         THEN /\ head' = n
              /\ next' = [next EXCEPT ![n] = 0]
         ELSE /\ head' = head
              /\ next' = [next EXCEPT ![n] = 0, ![pointerToTailPtr] = n]
    /\ pointerToTailPtr' = n
    /\ regOrder' = Append(regOrder, n)
    /\ UNCHANGED <<pc, tcVars, fatalSeen, suiteRegVars, outVars, runVars, ctxVars, ptcVars>>

\* The constructor of a static TEST_SUITE object n: the same code, on the
\* statics of CollectInstancesOf<TestSuiteRunner>.
RegisterSuite(n) ==
    /\ pc = "static_init"
    /\ ~InSuiteList(n)
    /\ IF suitePointerToTailPtr = 0
         THEN /\ suiteHead' = n
              /\ suiteNext' = [suiteNext EXCEPT ![n] = 0]
         ELSE /\ suiteHead' = suiteHead
              /\ suiteNext' = [suiteNext EXCEPT ![n] = 0, ![suitePointerToTailPtr] = n]
    /\ suitePointerToTailPtr' = n
    /\ regOrder' = Append(regOrder, n)
    /\ UNCHANGED <<pc, tcVars, fatalSeen, regVars, outVars, runVars, ctxVars, ptcVars>>

-----------------------------------------------------------------------------
(* RunTests() *)

\* The session context and allPassed are set up, the "DEFAULT" suite context
\* is created and ForEachInstance starts at head.
RunTests_Begin ==
    /\ pc = "static_init"
    /\ session' = NewSessionDefault
    /\ suite' = NewSuite("DEFAULT", Len(Registered))
    /\ allPassed' = TRUE
    /\ ptr' = head
    /\ pc' = "rt_loop"
    /\ UNCHANGED <<tcVars, fatalSeen, unitVars, outVars, runResult, ranTests, closed, ptcVars>>

\* ForEachInstance calls the lambda on *ptr: test.RunTest creates the test
\* case context and calls ExecuteTestCase on the test's body.
RunTests_RunTest ==
    /\ pc = "rt_loop"
    /\ ptr # 0
    /\ \E body \in FlowBodies : EnterTestCase(body, "RunTests")
    /\ ranTests' = Append(ranTests, ptr)
    /\ UNCHANGED <<fatalSeen, unitVars, outVars, ptr, allPassed, runResult, ctxVars, ptcVars>>

ForEachNext_StopsOnFailure(p) == IF tcResult THEN next[p] ELSE 0

\* ForEachInstance: the step of its for loop, ptr = ptr->next.
ForEachNext(p) == next[p]

RunTests_AfterTest_UnlinksVisited ==
    /\ pc = "tc_ret"
    /\ caller = "RunTests"
    /\ allPassed' = (tcResult /\ allPassed)
    /\ ptr' = ForEachNext(ptr)
    /\ head' = next[ptr]
    /\ pc' = "rt_loop"
    /\ UNCHANGED <<tcVars, fatalSeen, pointerToTailPtr, next, suiteRegVars, regOrder,
                   outVars, runResult, ranTests, ctxVars, ptcVars>>

\* RunTest has returned: allPassed = result && allPassed, ptr = ptr->next.
RunTests_AfterTest ==
    /\ pc = "tc_ret"
    /\ caller = "RunTests"
    /\ allPassed' = (tcResult /\ allPassed)
    /\ ptr' = ForEachNext(ptr)
    /\ pc' = "rt_loop"
    /\ UNCHANGED <<tcVars, fatalSeen, unitVars, outVars, runResult, ranTests, ctxVars, ptcVars>>

\* The list is at its end: the "DEFAULT" suite context goes out of scope and
\* RunTests returns allPassed.
RunTests_Return ==
    /\ pc = "rt_loop"
    /\ ptr = 0
    /\ runResult' = IF allPassed THEN "true" ELSE "false"
    /\ closed' = Close(closed, suite)
    /\ suite' = NoSuite
    /\ pc' = "done"
    /\ UNCHANGED <<tcVars, fatalSeen, unitVars, outVars, ptr, allPassed, ranTests, session, ptcVars>>

\* RunTets(argc, argv), the entry point for main: return 0, nothing else.
RunTets ==
    /\ pc = "static_init"
    /\ exitCode' = 0
    /\ pc' = "main_done"
    /\ UNCHANGED <<tcVars, fatalSeen, unitVars, reporterCalls, runVars, ctxVars, ptcVars>>

-----------------------------------------------------------------------------
(* FullContextForTestSuite::ProcessTestCases *)

\* What getNextTestCaseExecutorFunction can return: an executor that runs a
\* test case through ExecuteTestCase, one that throws, and the executor
\* RunTestSuite builds, which returns false.
ClientExecutors == {"case"} \cup Exceptions

TestCaseExecutionResult_InitTrue(returned, exc) ==
    IF exc = NoException THEN returned ELSE TRUE

\* testCaseExecutionResult: the executor's value, or false when one of the
\* four catch clauses took its exception.
TestCaseExecutionResult(returned, exc) ==
    IF exc = NoException THEN returned ELSE FALSE

\* The iterator of the suite context still has an executor to give.
IteratorHasNext ==
    \/ suite.kind = "client" /\ suite.left > 0
    \/ suite.kind = "runner" /\ suite.testCasesExecuted < MaxStubCases

\* Loop head, the iterator gives an executor e: onTestCaseStart, then the
\* executor is called.
PTC_NextCase ==
    /\ pc = "ptc_loop"
    /\ IteratorHasNext
    /\ \E e \in IF suite.kind = "runner" THEN {"stub"} ELSE ClientExecutors :
        executor' = e
    /\ LET r == onTestCaseStart(session, [suite EXCEPT !.left = @ - 1]) IN
        /\ session' = r.session
        /\ suite' = r.suite
    /\ pc' = "ptc_exec"
    /\ UNCHANGED <<tcVars, fatalSeen, unitVars, outVars, runVars, closed,
                   allNestedTCSucceeded, execThrown, execReturned>>

\* Loop head, the iterator gives the empty function: break,
\* onTestSuiteComplete, return to the client.
PTC_Complete ==
    /\ pc = "ptc_loop"
    /\ suite.kind = "client"
    /\ suite.left = 0
    /\ suite' = onTestSuiteComplete(suite)
    /\ pc' = "idle"
    /\ UNCHANGED <<tcVars, fatalSeen, unitVars, outVars, runVars, session, closed, ptcVars>>

\* The executor runs a test case: ExecuteTestCase on the case's body.
Executor_Case ==
    /\ pc = "ptc_exec"
    /\ executor = "case"
    /\ \E body \in FlowBodies : EnterTestCase(body, "executor")
    /\ suite' = [suite EXCEPT !.bodyRuns = @ + 1]
    /\ UNCHANGED <<fatalSeen, unitVars, outVars, runVars, session, closed, ptcVars>>

\* ExecuteTestCase has returned to the executor, which returns its value.
Executor_CaseReturn ==
    /\ pc = "tc_ret"
    /\ caller = "executor"
    /\ execReturned' = tcResult
    /\ execThrown' = NoException
    /\ suite' = IF tcResult THEN [suite EXCEPT !.okVerdicts = @ + 1]
                ELSE [suite EXCEPT !.badVerdicts = @ + 1]
    /\ pc' = "ptc_after"
    /\ UNCHANGED <<tcVars, fatalSeen, unitVars, outVars, runVars, session, closed,
                   allNestedTCSucceeded, executor>>

\* The executor throws (a failure in the code around the test case, such as
\* a sanity check of the suite's setup).
Executor_Throw ==
    /\ pc = "ptc_exec"
    /\ executor \in Exceptions
    /\ execThrown' = executor
    /\ execReturned' = FALSE
    /\ suite' = [suite EXCEPT
                    !.badVerdicts = @ + 1,
                    !.sanityAt = IF @ = 0 /\ executor = "SanityCheckFailed"
                                 THEN suite.testCasesExecuted ELSE @]
    /\ pc' = "ptc_after"
    /\ UNCHANGED <<tcVars, fatalSeen, unitVars, outVars, runVars, session, closed,
                   allNestedTCSucceeded, executor>>

\* The executor RunTestSuite's iterator builds: return false, nothing else
\* (Runner_DoNextTest is not called, no body is run).
Executor_Stub ==
    /\ pc = "ptc_exec"
    /\ executor = "stub"
    /\ execReturned' = FALSE
    /\ execThrown' = NoException
    /\ suite' = [suite EXCEPT !.badVerdicts = @ + 1]
    /\ pc' = "ptc_after"
    /\ UNCHANGED <<tcVars, fatalSeen, unitVars, outVars, runVars, session, closed,
                   allNestedTCSucceeded, executor>>

AllNestedTCSucceeded_LastOnly(all, res) == res

\* allNestedTCSucceeded = allNestedTCSucceeded && testCaseExecutionResult
AllNestedTCSucceeded(all, res) == all /\ res

\* After the try block: onTestCasePassed or onTestCaseFailed, then
\* allNestedTCSucceeded, and back to the loop head.
PTC_Verdict ==
    /\ pc = "ptc_after"
    /\ LET res == TestCaseExecutionResult(execReturned, execThrown)
           r == IF res THEN onTestCasePassed(session, suite)
                ELSE onTestCaseFailed(session, suite)
       IN /\ session' = r.session
          /\ suite' = r.suite
          /\ allNestedTCSucceeded' = AllNestedTCSucceeded(allNestedTCSucceeded, res)
    /\ pc' = "ptc_loop"
    /\ UNCHANGED <<tcVars, fatalSeen, unitVars, outVars, runVars, closed,
                   executor, execThrown, execReturned>>

-----------------------------------------------------------------------------
(* The client of the suite contexts *)

\* A suite context may be created: the one before it has been processed and
\* the session is not over.
MayStartSuite ==
    /\ pc = "idle"
    /\ ~session.ready
    /\ Close(closed, suite).suites < MaxSuites

StartSuite(kind, n) ==
    /\ closed' = Close(closed, suite)
    /\ suite' = NewSuite(kind, n)
    /\ allNestedTCSucceeded' = TRUE
    /\ pc' = "ptc_loop"
    /\ UNCHANGED <<tcVars, fatalSeen, unitVars, outVars, runVars, session,
                   executor, execThrown, execReturned>>

\* The client creates a suite context and calls ProcessTestCases with an
\* iterator over n executors.
Client_ProcessTestCases ==
    /\ MayStartSuite
    /\ \E n \in 0..MaxCases : StartSuite("client", n)

\* TestSuiteRunner::RunTestSuite on a suite whose body declares n test
\* cases: the suite context is created and ProcessTestCases is called with
\* an iterator that returns the same executor every time.
RunTestSuite ==
    /\ MayStartSuite
    /\ \E n \in 1..MaxCases : StartSuite("runner", n)

\* The value RunTestSuite returns behind the call of ProcessTestCases, whose
\* own result (processed) it drops: `return true;`.
RunTestSuiteResult(processed) == TRUE

\* The client ends the session.
Client_OnTestSessionComplete ==
    /\ pc = "idle"
    /\ ~session.ready
    /\ session' = OnTestSessionComplete(session)
    /\ UNCHANGED <<pc, tcVars, fatalSeen, unitVars, outVars, runVars, suite, closed, ptcVars>>

-----------------------------------------------------------------------------
(* The three programs *)

InitCommon ==
    /\ caller = "harness"
    /\ tcBody = <<>>
    /\ tcPos = 1
    /\ flag = TRUE
    /\ thrown = NoException
    /\ tcResult = FALSE
    /\ reported = <<>>
    /\ fatalSeen = FALSE
    /\ head = 0
    /\ pointerToTailPtr = 0
    /\ next = [n \in Instances |-> 0]
    /\ suiteHead = 0
    /\ suitePointerToTailPtr = 0
    /\ suiteNext = [n \in Units |-> 0]
    /\ regOrder = <<>>
    /\ reporterCalls = <<>>
    /\ exitCode = "none"
    /\ ptr = 0
    /\ allPassed = TRUE
    /\ runResult = "none"
    /\ ranTests = <<>>
    /\ suite = NoSuite
    /\ closed = NoneClosed
    /\ allNestedTCSucceeded = TRUE
    /\ executor = "none"
    /\ execThrown = NoException
    /\ execReturned = FALSE

\* ExecuteTestCase is called once, on any body.
InitCase ==
    /\ pc = "tc_call"
    /\ session = NewSessionDefault
    /\ InitCommon

Harness_ExecuteTestCase ==
    /\ pc = "tc_call"
    /\ \E body \in Bodies : EnterTestCase(body, "harness")
    /\ UNCHANGED <<fatalSeen, unitVars, outVars, runVars, ctxVars, ptcVars>>

NextCase == Harness_ExecuteTestCase \/ TcBody_Step \/ ExecuteTestCase_Return

SpecCase == InitCase /\ [][NextCase]_vars

\* The static TEST instances are constructed, then RunTests() runs.
Init ==
    /\ pc = "static_init"
    /\ session = NoSession
    /\ InitCommon

Next ==
    \/ \E n \in Instances : Register(n)
    \/ \E n \in SuiteInstances : RegisterSuite(n)
    \/ RunTests_Begin
    \/ RunTests_RunTest
    \/ TcBody_Step
    \/ ExecuteTestCase_Return
    \/ RunTests_AfterTest
    \/ RunTests_Return
    \/ RunTets

Spec == Init /\ [][Next]_vars

\* A client creates the session context with either constructor and runs
\* suite contexts on it, one after the other.
InitSuite ==
    /\ pc = "idle"
    /\ session \in {NewSessionDefault, NewSessionNamed}
    /\ InitCommon

NextSuite ==
    \/ Client_ProcessTestCases
    \/ RunTestSuite
    \/ PTC_NextCase
    \/ PTC_Complete
    \/ Executor_Case
    \/ TcBody_Step
    \/ ExecuteTestCase_Return
    \/ Executor_CaseReturn
    \/ Executor_Throw
    \/ Executor_Stub
    \/ PTC_Verdict
    \/ Client_OnTestSessionComplete

SpecSuite == InitSuite /\ [][NextSuite]_vars

-----------------------------------------------------------------------------
(* Properties *)

\* The body holds only EXPECT checks.
OnlyExpects(body) == \A i \in DOMAIN body : body[i].sev = "EXPECT"

\* The body of one failing EXPECT followed by two passing ones.
ExpectFailPassPass ==
    <<Chk("EXPECT", FALSE), Chk("EXPECT", TRUE), Chk("EXPECT", TRUE)>>

C3_SuiteCountersAfterProcessing ==
    (suite.kind = "client" /\ suite.ready) =>
        /\ suite.testCasesExecuted = suite.declared
        /\ suite.testCasesPassed = suite.okVerdicts
        /\ suite.testCasesFailed = suite.badVerdicts
        /\ suite.okVerdicts + suite.badVerdicts = suite.declared

\* Two cases, the first passed, the second failed an ASSERT.
C3_Witness ==
    /\ suite.kind = "client"
    /\ suite.ready
    /\ suite.declared = 2
    /\ suite.testCasesExecuted = 2
    /\ suite.testCasesPassed = 1
    /\ suite.testCasesFailed = 1
    /\ caller = "executor"
    /\ thrown = "AssertCheckFailed"

\* C4: once the session is finalized (OnTestSessionComplete has made its
\* "after" part ready), testCasesTotalFailed + testCasesTotalPassed equals
\* testCasesTotalExecuted.
C4_SessionBalancedWhenFinalized ==
    session.ready =>
        session.testCasesTotalFailed + session.testCasesTotalPassed
            = session.testCasesTotalExecuted

C4_Witness ==
    /\ session.ready
    /\ session.testCasesTotalPassed >= 1
    /\ session.testCasesTotalFailed >= 1
    /\ session.testCasesTotalExecuted >= 3

\* C5: each counter of the session is the sum of that counter over all the
\* suite contexts of the session, those already destroyed and the one that
\* exists now, in every state.
C5_SessionIsSumOfSuites ==
    /\ session.testCasesTotalExecuted = closed.executed + suite.testCasesExecuted
    /\ session.testCasesTotalPassed = closed.passed + suite.testCasesPassed
    /\ session.testCasesTotalFailed = closed.failed + suite.testCasesFailed

C5_Witness ==
    /\ closed.suites >= 1
    /\ closed.passed >= 1
    /\ closed.failed >= 1
    /\ suite.testCasesPassed >= 1
    /\ suite.testCasesFailed >= 1

\* C6: at the suite level and at the session level, passed + failed <=
\* executed <= the number of test cases discovered (declared by the suites
\* created so far).
C6_CountersWithinDiscovered ==
    /\ suite.testCasesPassed + suite.testCasesFailed <= suite.testCasesExecuted
    /\ suite.testCasesExecuted <= suite.declared
    /\ session.testCasesTotalPassed + session.testCasesTotalFailed
          <= session.testCasesTotalExecuted
    /\ session.testCasesTotalExecuted <= closed.declared + suite.declared

\* C7: replay law.  Whenever RunTestSuite is between two test cases of a
\* suite that declares N of them, the suite body (its setup and its
\* teardown) has been run once for each case processed so far, and never
\* more than N cases are processed.
C7_ReplayLaw ==
    (suite.kind = "runner" /\ pc = "ptc_loop") =>
        /\ suite.doNextTestCalls = suite.testCasesExecuted
        /\ suite.testCasesExecuted <= suite.declared

\* C8: whenever RunTestSuite is between two test cases, exactly one real
\* test case body has been executed for each case position processed, and
\* over the whole suite no more bodies than the suite declares.
C8_OneBodyPerPosition ==
    (suite.kind = "runner" /\ pc = "ptc_loop") =>
        /\ suite.bodyRuns = suite.testCasesExecuted
        /\ suite.bodyRuns <= suite.declared

\* C9: a SanityCheckFailed raised by the code around a test case (the
\* suite's setup) aborts the suite: the position it was raised at is not
\* counted as executed or failed and no later position is attempted, so a
\* failure at the first position leaves the suite's counters at zero.
C9_SuiteAbortsOnSetupSanity ==
    (suite.sanityAt # 0 /\ pc \in {"ptc_loop", "idle"}) =>
        /\ suite.testCasesExecuted = suite.sanityAt - 1
        /\ suite.testCasesPassed + suite.testCasesFailed = suite.testCasesExecuted

\* C10: after a CRITICAL_CHECK has failed no other test is executed (a body
\* that is running holds the failed check among the statements it has
\* evaluated), and RunTests returns false.
C10_CriticalFailureStopsRun ==
    /\ (fatalSeen /\ pc = "tc_body") =>
           \E i \in 1..(tcPos - 1) : CheckIsFatal(tcBody[i])
    /\ (fatalSeen /\ pc = "done") => runResult = "false"

\* The levels of the Reporter's OnItem overloads, outermost first.
LevelOf(level) ==
    CASE level = "Session" -> 1
      [] level = "Suite" -> 2
      [] level = "Case" -> 3
      [] level = "Check" -> 4

RECURSIVE DepthAfter(_)
\* The nesting depth after a sequence of OnItem calls, each a record
\* [when, level]: a Before of level d + 1 opens at depth d, an After of level
\* d closes at depth d; -1 when the calls do not nest.
DepthAfter(calls) ==
    IF calls = <<>> THEN 0
    ELSE LET d == DepthAfter(SubSeq(calls, 1, Len(calls) - 1))
             e == calls[Len(calls)]
         IN IF d = -1 THEN -1
            ELSE IF e.when = "Before" /\ LevelOf(e.level) = d + 1 THEN d + 1
            ELSE IF e.when = "After" /\ LevelOf(e.level) = d THEN d - 1
            ELSE -1

\* The calls Before(level) among a sequence of OnItem calls.
BeforeCalls(calls, level) ==
    {i \in DOMAIN calls : calls[i] = [when |-> "Before", level |-> level]}

\* C11: the Reporter's OnItem calls of a run nest like brackets.  At every
\* moment the calls made so far nest; when RunTests has returned they are
\* Before(Session) ... After(Session), closed at every level, with one
\* Before(Suite) for the suite that was run and one Before(Case) for each
\* test that was run.
C11_ReporterCallsNest ==
    /\ DepthAfter(reporterCalls) # -1
    /\ pc = "done" =>
        /\ reporterCalls # <<>>
        /\ DepthAfter(reporterCalls) = 0
        /\ Cardinality(BeforeCalls(reporterCalls, "Session")) = 1
        /\ Cardinality(BeforeCalls(reporterCalls, "Suite")) = closed.suites
        /\ Cardinality(BeforeCalls(reporterCalls, "Case")) = Len(ranTests)

\* C12: RunTests() returns true exactly when the session's failed count is 0
\* (every executed test case passed) and no fatal error occurred.
C12_RunTestsResult ==
    pc = "done" =>
        (runResult = "true" <=> (session.testCasesTotalFailed = 0 /\ ~fatalSeen))

\* C13: the command-line entry point returns 0 exactly when every registered
\* test has been executed and passed and no fatal error occurred, and a
\* nonzero value otherwise.
C13_ExitCode ==
    pc = "main_done" =>
        (exitCode = 0 <=> (ranTests = Registered /\ allPassed /\ ~fatalSeen))

\* C14: when RunTests() has returned, the DEFAULT suite and every registered
\* named suite have been run, each once.
C14_NamedSuitesRun ==
    pc = "done" => closed.suites = 1 + Len(RegisteredSuites)

\* C15: RunTests() executes the registered TESTs in discovery order, each
\* once: the tests run so far are always a prefix of the list, whatever the
\* verdicts were, and the whole list when RunTests has returned.
C15_EveryTestOnceInOrder ==
    /\ Len(ranTests) <= Len(Registered)
    /\ ranTests = SubSeq(Registered, 1, Len(ranTests))
    /\ pc = "done" => ranTests = Registered

\* Two tests; the first failed, the second was run all the same and passed.
C15_Witness ==
    /\ pc = "done"
    /\ Len(ranTests) = 2
    /\ ranTests = Registered
    /\ tcResult
    /\ ~allPassed

IsTestInstance(u) == u \in Instances

IsSuiteInstance(u) == u \in SuiteInstances

\* C16: registration is append-only and order-preserving.  After any
\* sequence of constructors, ForEachInstance of either list visits exactly
\* the objects of its class that were constructed, each once, in the order
\* of construction.
C16_RegistrationOrder ==
    /\ Registered = SelectSeq(regOrder, IsTestInstance)
    /\ RegisteredSuites = SelectSeq(regOrder, IsSuiteInstance)

\* Both tests registered, the second object first, a suite in between.
C16_Witness ==
    /\ Registered = <<2, 1>>
    /\ Len(regOrder) = 3
    /\ regOrder[2] \in SuiteInstances

\* C17: traversal is read-only.  No step of RunTests() (nor of RunTets)
\* changes head, pointerToTailPtr or a next link of either list, so a second
\* traversal visits the same sequence, and no unit is added or removed.
C17_TraversalReadOnly ==
    [][pc' # "static_init" =>
         /\ UNCHANGED <<regVars, suiteRegVars>>
         /\ Registered' = Registered
         /\ RegisteredSuites' = RegisteredSuites]_vars

\* RunTests has traversed a list of two tests.
C17_Witness ==
    /\ pc = "done"
    /\ Len(Registered) = 2
    /\ ranTests = Registered
    /\ pointerToTailPtr = Registered[2]

\* C18: the two lists are disjoint.  The constructor of a TEST leaves the
\* list of suites as it is, the constructor of a TEST_SUITE leaves the list
\* of tests as it is, and no object is in both lists.
C18_RegistriesDisjoint ==
    [][/\ Len(regOrder') > Len(regOrder) =>
            IF regOrder'[Len(regOrder')] \in Instances
            THEN UNCHANGED suiteRegVars /\ Registered' # Registered
            ELSE UNCHANGED regVars /\ RegisteredSuites' # RegisteredSuites
       /\ \A i \in DOMAIN Registered' : \A j \in DOMAIN RegisteredSuites' :
            Registered'[i] # RegisteredSuites'[j]]_vars

\* A test, then a suite, then a test: both lists hold what was registered.
C18_Witness ==
    /\ Len(regOrder) = 3
    /\ regOrder[1] \in Instances
    /\ regOrder[2] \in SuiteInstances
    /\ regOrder[3] \in Instances
    /\ Len(Registered) = 2
    /\ Len(RegisteredSuites) = 1

\* C19: no exception leaves ExecuteTestCase.  However the body ends,
\* ExecuteTestCase returns a boolean; when the body threw (AssertCheckFailed,
\* SanityCheckFailed, a std::exception or anything else) the value is false
\* and the statement that threw is the last one evaluated, for a fault as
\* for a failed ASSERT.
C19_NoExceptionEscapes ==
    /\ pc # "tc_escaped"
    /\ pc = "tc_ret" =>
        /\ tcResult \in BOOLEAN
        /\ thrown # NoException =>
            /\ tcResult = FALSE
            /\ StepThrows(tcBody[tcPos - 1]) = thrown
            /\ \A k \in DOMAIN reported : reported[k] < tcPos

\* A body whose second statement throws something that is no std::exception,
\* with a third statement behind it.
C19_Witness ==
    /\ pc = "tc_ret"
    /\ thrown = "unknown"
    /\ tcResult = FALSE
    /\ tcPos = 3
    /\ Len(tcBody) = 3

C21_EarlyQueryIsUsageFault ==
    /\ ~session.ready =>
        /\ SessionTestCasesExecuted(session).signal = "UsageFault"
        /\ SessionTestCasesPassed(session).signal = "UsageFault"
        /\ SessionTestCasesFailed(session).signal = "UsageFault"
    /\ (suite.kind # "none" /\ ~suite.ready) =>
        /\ SuiteTestCasesExecuted(suite).signal = "UsageFault"
        /\ SuiteTestCasesPassed(suite).signal = "UsageFault"
        /\ SuiteTestCasesFailed(suite).signal = "UsageFault"
    /\ (pc = "tc_body" /\ ~FullContextForTestCase.ready) =>
        CaseIsPassed(FullContextForTestCase).signal = "UsageFault"

\* C22: after an activity has completed, IsPassed() of its context tells
\* whether it passed: for a test case the value ExecuteTestCase returned,
\* for a processed suite that none of its cases failed, for a finalized
\* session that no case of any suite failed.
C22_IsPassedTellsVerdict ==
    /\ pc = "tc_ret" => (CaseIsPassed(FullContextForTestCase).answer <=> tcResult)
    /\ (suite.kind = "client" /\ suite.ready) =>
        (SuiteIsPassed(suite).answer <=> suite.testCasesFailed = 0)
    /\ session.ready =>
        (SessionIsPassed(session).answer <=> session.testCasesTotalFailed = 0)

\* C23: IsErrorOnStart() is false for an activity whose body did execute: a
\* test case whose body has run a statement, a suite one of whose cases was
\* started, a session with a case started.
C23_IsErrorOnStartOnlyBeforeBody ==
    /\ (pc \in {"tc_body", "tc_ret"} /\ tcPos > 1) =>
        ~CaseIsErrorOnStart(FullContextForTestCase)
    /\ suite.testCasesExecuted > 0 => ~SuiteIsErrorOnStart(suite)
    /\ session.testCasesTotalExecuted > 0 => ~SessionIsErrorOnStart(session)

\* C24: when RunTests() has run K standalone tests, the session's counters
\* and those of the DEFAULT suite context say so: executed is K, passed and
\* failed add up to K, and failed is 0 exactly when every test passed.
C24_StandaloneTestsCounted ==
    pc = "done" =>
        /\ session.testCasesTotalExecuted = Len(ranTests)
        /\ session.testCasesTotalPassed + session.testCasesTotalFailed = Len(ranTests)
        /\ (session.testCasesTotalFailed = 0 <=> allPassed)
        /\ closed.executed = Len(ranTests)
        /\ closed.passed = session.testCasesTotalPassed
        /\ closed.failed = session.testCasesTotalFailed

\* C25: when RunTests() returns, the session context has been started and
\* finalized: OnTestSessionComplete was called and its "after" part is ready.
C25_SessionFinalizedAtReturn ==
    pc = "done" => (session.started /\ session.ready)

\* The calls After(level) among a sequence of OnItem calls.
AfterCalls(calls, level) ==
    {i \in DOMAIN calls : calls[i] = [when |-> "After", level |-> level]}

\* C26: a failure is reported before it is counted.  At every moment the
\* Reporter has been told of the end of at least as many test cases as the
\* failed counters of the session and of the suite count.
C26_ReportedBeforeCounted ==
    /\ Cardinality(AfterCalls(reporterCalls, "Case")) >= session.testCasesTotalFailed
    /\ Cardinality(AfterCalls(reporterCalls, "Case")) >= suite.testCasesFailed

\* A passing sanity check of either kind.
PassingSanity == {Chk("SANITY_CHECK", TRUE), Chk("CRITICAL_CHECK", TRUE)}

\* C27: a passing SANITY_CHECK or CRITICAL_CHECK has no effect but to let
\* the body go on.  The step that evaluates it reports nothing, calls no
\* Reporter, leaves the flag of the test case, the fatal mark and every
\* counter of the session and the suite as they are, throws nothing, and the
\* body is at its next statement.
C27_PassingSanityIsSilent ==
    [][(/\ pc = "tc_body"
        /\ thrown = NoException
        /\ tcPos <= Len(tcBody)
        /\ tcBody[tcPos] \in PassingSanity) =>
            /\ UNCHANGED <<reported, reporterCalls, flag, fatalSeen, session, suite, closed>>
            /\ thrown' = NoException
            /\ tcPos' = tcPos + 1
            /\ pc' = "tc_body"]_vars

\* Two passing sanity checks, then a passing EXPECT: only the EXPECT is
\* reported and the test case passed.
C27_Witness ==
    /\ pc = "tc_ret"
    /\ tcBody = <<Chk("SANITY_CHECK", TRUE), Chk("CRITICAL_CHECK", TRUE), Chk("EXPECT", TRUE)>>
    /\ reported = <<3>>
    /\ tcResult
    /\ ~fatalSeen

\* C28: once the session context exists, before any suite is executed and
\* after, TestSuitesFound() is the number of test suites discovered: the
\* registered named suites, with or without the DEFAULT suite.
C28_TestSuitesFound ==
    pc \in {"rt_loop", "tc_body", "tc_ret", "done"} =>
        TestSuitesFound(session) \in
            {Len(RegisteredSuites), Len(RegisteredSuites) + 1}

\* C29: the value RunTestSuite returns is the result of processing the
\* suite's cases: at every point where the case loop can end, what
\* RunTestSuite would return is allNestedTCSucceeded of ProcessTestCases.
C29_RunTestSuiteResult ==
    (suite.kind = "runner" /\ pc = "ptc_loop") =>
        RunTestSuiteResult(allNestedTCSucceeded) = allNestedTCSucceeded

\* C30: RunTestSuite terminates.  When the case loop it drives is at its
\* head and the cases the suite declares have been processed, the iterator
\* gives the empty executor: the next step finalizes the suite and returns.
C30_RunTestSuiteTerminates ==
    [][(/\ suite.kind = "runner"
        /\ pc = "ptc_loop"
        /\ suite.testCasesExecuted >= suite.declared) =>
            (suite'.ready /\ pc' = "idle")]_vars

CaseInProgress == pc \in {"ptc_exec", "tc_body", "tc_ret", "ptc_after"}

\* C32: in every state of ProcessTestCases on a suite context,
\* testCasesExecuted - (testCasesPassed + testCasesFailed) is 1 while a case
\* is being executed and 0 at the loop head and after the return.
C32_OneCaseInFlight ==
    suite.kind \in {"client", "runner"} =>
        suite.testCasesExecuted - (suite.testCasesPassed + suite.testCasesFailed)
            = IF CaseInProgress THEN 1 ELSE 0

\* The second case of a suite is running, the first has its verdict.
C32_Witness ==
    /\ suite.kind = "client"
    /\ pc = "tc_body"
    /\ tcPos = 2
    /\ suite.testCasesExecuted = 2
    /\ suite.testCasesPassed = 1
    /\ suite.testCasesFailed = 0

\* C33: when ProcessTestCases has returned, its result allNestedTCSucceeded
\* is true exactly when no case of that call failed: the failed counter of
\* the suite is 0 as it was before the call, and that of the session is
\* what the suites before this one left.  With no case the result is true.
C33_ProcessTestCasesResult ==
    (suite.kind = "client" /\ suite.ready) =>
        /\ allNestedTCSucceeded <=> suite.testCasesFailed = 0
        /\ allNestedTCSucceeded <=> session.testCasesTotalFailed = closed.failed
        /\ suite.declared = 0 => allNestedTCSucceeded

\* Two cases: the first failed, the second (the last) passed; the result is
\* false.
C33_Witness ==
    /\ suite.kind = "client"
    /\ suite.ready
    /\ suite.declared = 2
    /\ suite.testCasesFailed = 1
    /\ suite.testCasesPassed = 1
    /\ execReturned
    /\ execThrown = NoException
    /\ ~allNestedTCSucceeded

\* C34: the ready flag of a suite context is false during the whole case
\* loop, becomes true in the step that leaves the loop (onTestSuiteComplete,
\* at the return of ProcessTestCases) and in no other, and once it is true
\* the context does not change any more: neither ready nor a counter, until
\* the context is replaced by the next one.
C34_ReadyOnlyAfterLoop ==
    [][/\ (pc' \in {"ptc_loop", "ptc_exec", "tc_body", "tc_ret", "ptc_after"}
              /\ suite'.kind \in {"client", "runner"}) => ~suite'.ready
       /\ (pc = "ptc_loop" /\ pc' = "idle") =>
              /\ suite'.ready
              /\ suite' = [suite EXCEPT !.ready = TRUE]
       /\ (~suite.ready /\ suite'.ready) => (pc = "ptc_loop" /\ pc' = "idle")
       /\ suite.ready =>
              \/ suite' = suite
              \/ (pc = "idle" /\ pc' = "ptc_loop" /\ suite'.testCasesExecuted = 0)]_vars

\* A suite of two cases has been processed and the session finalized behind
\* it: the suite context is ready and holds its counters.
C34_Witness ==
    /\ suite.kind = "client"
    /\ suite.ready
    /\ session.ready
    /\ pc = "idle"
    /\ suite.testCasesExecuted = 2
    /\ suite.testCasesPassed + suite.testCasesFailed = 2

\* The objects of a visiting order are all different.
NoRepeats(seq) == \A i, j \in DOMAIN seq : i # j => seq[i] # seq[j]

\* C35: the structure of the registry.  After any sequence of constructors
\* the list from head has no cycle, holds as many objects as were
\* constructed, ends in an object whose next is null, and pointerToTailPtr is
\* at head when the list is empty and at the next field of the last object
\* otherwise; for the list of tests and for the list of suites.
C35_RegistryStructure ==
    /\ NoRepeats(Registered)
    /\ Len(Registered) = Cardinality({i \in DOMAIN regOrder : regOrder[i] \in Instances})
    /\ IF Registered = <<>>
         THEN head = 0 /\ pointerToTailPtr = 0
         ELSE /\ head = Registered[1]
              /\ next[Registered[Len(Registered)]] = 0
              /\ pointerToTailPtr = Registered[Len(Registered)]
    /\ NoRepeats(RegisteredSuites)
    /\ Len(RegisteredSuites)
         = Cardinality({i \in DOMAIN regOrder : regOrder[i] \in SuiteInstances})
    /\ IF RegisteredSuites = <<>>
         THEN suiteHead = 0 /\ suitePointerToTailPtr = 0
         ELSE /\ suiteHead = RegisteredSuites[1]
              /\ suiteNext[RegisteredSuites[Len(RegisteredSuites)]] = 0
              /\ suitePointerToTailPtr = RegisteredSuites[Len(RegisteredSuites)]

\* Every test object has been constructed, and a suite.
C35_Witness ==
    /\ pc = "static_init"
    /\ Len(Registered) = MaxTests
    /\ Len(RegisteredSuites) >= 1
    /\ pointerToTailPtr = Registered[MaxTests]
    /\ next[head] # 0

\* C36: a session context is started from its construction on, whichever
\* constructor made it, and once it is finalized (OnTestSessionComplete) its
\* activity is completed as well as ready.
C36_SessionStartedAndCompleted ==
    /\ session.started
    /\ session.ready => session.completed

====
